---- MODULE Spec2Model ----
(***************************************************************************)
(* A model of the anansi opportunity aggregator: the record normalizer     *)
(* (src/normalizer.py) and the pipeline driver with its seen-ledger        *)
(* (src/aggregator.py, src/post_slack.py).                                 *)
(*                                                                         *)
(* Text is modelled as a sequence of tokens (a token is a word, a blank or *)
(* a delimiter), so that strip, lower-casing, cleaning and joining are     *)
(* computed the way the code computes them.  A date is a day number; the   *)
(* date parser is a table from the raw spellings to day numbers, and an    *)
(* ISO date is the canonical spelling of a day number.  A SHA-1 digest is  *)
(* modelled by the text that is hashed (no collisions).                    *)
(***************************************************************************)
EXTENDS Integers, Sequences, FiniteSets, Bags, TLC

VARIABLES
    file,             \* state.json: the bag of fingerprints of its "seen" list
    pc,               \* position of main(): idle, normalize, filter, publish, commit, done
    runs,             \* number of runs of main() started so far
    all_raw,          \* main: all_raw, the merged raw records (normalize: records)
    today,            \* the UTC day of the run
    now,              \* the day of the wall clock, datetime.now(timezone.utc).date()
    normalized,       \* main: normalized (normalize: its return value)
    seen,             \* main: seen, the set loaded from state.json
    new_items,        \* main: new_items, each with its "sig"
    digest,           \* the text handed to post_to_slack: header count, item lines, summary count
    outcome,          \* how the run ended: none, no_items, no_normalized, no_new, posted, raised
    posts,            \* calls of post_to_slack in this run
    saves,            \* calls of save_state in this run
    pubOk,            \* post_to_slack has returned normally in this run
    file0,            \* state.json as it was when this run started
    sameInput,        \* this run has the source data and the day of the previous run
    prevOutcome,      \* outcome of the previous run, kept while sameInput (else none)
    prevNew,          \* new_items of the previous run, kept while sameInput (else empty)
    sent,             \* fingerprints of the items of every digest delivered so far
    delivered,        \* sigs of the records of every digest delivered and committed so far
    deliveredIds,     \* ids of the records of every digest delivered and committed so far
    future_only,      \* ANANSI_FUTURE_ONLY
    require_deadline, \* ANANSI_REQUIRE_DEADLINE
    max_lines,        \* ANANSI_MAX_LINES
    sources,          \* main: sources, each connector with what its calls will do
    invoked,          \* positions in sources of the connectors _safe_fetch was called on
    loads,            \* calls of load_state in this run
    stateShape,       \* what state.json holds: ok (an object whose "seen" is a list of
                      \* strings), missing, unreadable, not_json, not_object, seen_null
    calls,            \* per connector of sources, the calls _safe_fetch made of it, in order
    amount_text,      \* _norm_amount: its argument
    amount_out,       \* _norm_amount: its result (min, max, currency)
    procs             \* runs of main overlapping on one state.json: each one's position,
                      \* seen set and new fingerprints

vars == <<file, pc, runs, all_raw, today, now, normalized, seen, new_items, digest,
          outcome, posts, saves, pubOk, file0, sameInput, prevOutcome, prevNew,
          sent, delivered, deliveredIds, future_only, require_deadline, max_lines,
          sources, invoked, loads, stateShape, calls, amount_text, amount_out, procs>>

(***************************************************************************)
(* Bounds                                                                  *)
(***************************************************************************)
MaxBatch == 2     \* records in one normalize call
MaxRuns == 2      \* runs of the pipeline
MaxSource == 2    \* raw records fetched in one pipeline run
MaxConnectors == 2  \* connectors registered in sources

(***************************************************************************)
(* Text                                                                    *)
(***************************************************************************)
None == ""

WS == {" ", "\t"}

RECURSIVE LStrip(_, _)
LStrip(s, chars) ==
    IF s = <<>> THEN <<>>
    ELSE IF s[1] \in chars THEN LStrip(Tail(s), chars) ELSE s

RECURSIVE RStrip(_, _)
RStrip(s, chars) ==
    IF s = <<>> THEN <<>>
    ELSE IF s[Len(s)] \in chars THEN RStrip(SubSeq(s, 1, Len(s) - 1), chars) ELSE s

\* str.strip(chars)
StripChars(s, chars) == RStrip(LStrip(s, chars), chars)

\* str.strip()
Strip(s) == StripChars(s, WS)

LowerTok(c) ==
    CASE c = "Grant" -> "grant"
      [] c = "Audit" -> "audit"
      [] c = "A"     -> "a"
      [] c = "AFD"   -> "afd"
      [] c = "AfDB"  -> "afdb"
      [] c = "Home"  -> "home"
      [] c = "Unknown" -> "unknown"
      [] c = "Media" -> "media"
      [] c = "No"    -> "no"
      [] c = "UNDP"  -> "undp"
      [] c = "World Bank" -> "world bank"
      [] c = "Women" -> "women"
      [] c = "AI"    -> "ai"
      [] OTHER       -> c

\* str.lower()
Lower(s) == [i \in DOMAIN s |-> LowerTok(s[i])]

\* html.unescape
Unescape(s) == [i \in DOMAIN s |-> IF s[i] = "&amp;" THEN "&" ELSE s[i]]

\* WHITESPACE.sub(" ", t): every run of blanks becomes one blank
RECURSIVE CollapseWS(_)
CollapseWS(s) ==
    IF s = <<>> THEN <<>>
    ELSE IF s[1] \in WS
         THEN <<" ">> \o CollapseWS(LStrip(s, WS))
         ELSE <<s[1]>> \o CollapseWS(Tail(s))

JunkAnywhere == {".css", ".js", "site-header"}
JunkAlone == {"home", "menu", "language"}
TitleDelims == {" ", "-", "|", ">", ":"}

\* some TITLE_JUNK_PATTERNS regex matches t
TitleIsJunk(t) ==
    \/ \E i \in DOMAIN t : t[i] \in JunkAnywhere
    \/ LET u == Strip(t) IN Len(u) = 1 /\ LowerTok(u[1]) \in JunkAlone

_clean_titleJunkKept(t) ==
    IF t = <<>> THEN <<>>
    ELSE StripChars(CollapseWS(Strip(Unescape(t))), TitleDelims)

_clean_title(t) ==
    IF t = <<>> THEN <<>>
    ELSE LET u == Strip(Unescape(t))
         IN IF TitleIsJunk(u) THEN <<>>
            ELSE StripChars(CollapseWS(u), TitleDelims)

\* "sep".join(parts)
RECURSIVE Join(_, _)
Join(parts, sep) ==
    IF parts = <<>> THEN <<>>
    ELSE IF Len(parts) = 1 THEN parts[1]
    ELSE parts[1] \o <<sep>> \o Join(Tail(parts), sep)

RECURSIVE NonEmptyStripped(_)
NonEmptyStripped(parts) ==
    IF parts = <<>> THEN <<>>
    ELSE IF parts[1] = <<>> THEN NonEmptyStripped(Tail(parts))
    ELSE <<Strip(parts[1])>> \o NonEmptyStripped(Tail(parts))

\* the digest is modelled by the text it is taken of
_sha1(parts) == Join(NonEmptyStripped(parts), "::")

(***************************************************************************)
(* Dates                                                                   *)
(***************************************************************************)
Days == 1 .. 4
MaxDate == 99     \* datetime.max.date()
MinDate == 0      \* datetime.min.date()

IsoOf(n) ==
    CASE n = 1 -> "2024-05-01"
      [] n = 2 -> "2024-06-01"
      [] n = 3 -> "2024-06-15"
      [] n = 4 -> "2024-07-01"
      [] n = MaxDate -> "9999-12-31"

\* dateutil's parse: the day a spelling denotes, 0 when it raises
ParseDate(s) ==
    CASE s = "2024-05-01"   -> 1
      [] s = "2024-06-01"   -> 2
      [] s = "2024-06-15"   -> 3
      [] s = "2024-07-01"   -> 4
      [] s = "1 May 2024"   -> 1
      [] s = "June 15, 2024" -> 3
      [] s = "1 July 2024"  -> 4
      [] s = "9999-12-31"   -> MaxDate
      [] OTHER              -> 0

_to_iso(d) ==
    IF d = None THEN None
    ELSE IF ParseDate(d) = 0 THEN None ELSE IsoOf(ParseDate(d))

(***************************************************************************)
(* normalize (src/normalizer.py)                                           *)
(***************************************************************************)
\* a raw record, as a connector returns it
\* (keys the connector left out read as None: status None, tags <<>> for
\* None or [], country_scope <<>> for None)
Raw(id, title, donor, url, deadline, published) ==
    [id |-> id, title |-> title, donor |-> donor, url |-> url,
     deadline |-> deadline, published_date |-> published,
     status |-> None, tags |-> <<>>, country_scope |-> <<>>]

CANON_THEMES ==
    {"Open Government", "Digital Governance", "Anti-Corruption", "Civic Space",
     "Fiscal Openness", "Justice and Rule of Law", "Gender and Inclusion",
     "Climate and Environment", "Media Freedom"}

TAG_TO_THEME ==
    [t \in {"ai_digital", "anti_corruption", "civic_participation", "budget",
            "justice", "governance"} |->
        CASE t = "ai_digital"          -> "Digital Governance"
          [] t = "anti_corruption"     -> "Anti-Corruption"
          [] t = "civic_participation" -> "Civic Space"
          [] t = "budget"              -> "Fiscal Openness"
          [] t = "justice"             -> "Justice and Rule of Law"
          [] t = "governance"          -> "Open Government"]

\* the alternatives of each pattern, as the words (and phrases) they match
\* between word boundaries, lower-cased (re.I)
KW_TO_THEME ==
    <<[kw |-> {<<"media">>, <<"press">>, <<"journalism">>, <<"journalist">>, <<"broadcast">>},
       theme |-> "Media Freedom"],
      [kw |-> {<<"gender">>, <<"women">>, <<"girls">>, <<"gbv">>, <<"sgbv">>},
       theme |-> "Gender and Inclusion"],
      [kw |-> {<<"climate">>, <<"environment">>, <<"biodivers">>, <<"resilienc">>,
               <<"adaptation">>, <<"mitigation">>},
       theme |-> "Climate and Environment"],
      [kw |-> {<<"open", " ", "data">>, <<"digital">>, <<"egov">>, <<"e-gov">>, <<"ict">>,
               <<"ai">>, <<"data">>, <<"cybersecurity">>},
       theme |-> "Digital Governance"],
      [kw |-> {<<"anti-corruption">>, <<"anticorruption">>, <<"integrity">>, <<"illicit">>,
               <<"brib">>, <<"procuremen">>, <<"transparen">>, <<"accountab">>},
       theme |-> "Anti-Corruption"],
      [kw |-> {<<"civic">>, <<"participation">>, <<"civil", " ", "society">>,
               <<"freedom", " ", "of", " ", "assembly">>, <<"association">>},
       theme |-> "Civic Space"],
      [kw |-> {<<"budget">>, <<"public", " ", "finance">>, <<"pfm">>, <<"audit">>,
               <<"revenue">>, <<"tax">>},
       theme |-> "Fiscal Openness"],
      [kw |-> {<<"justice">>, <<"rule", " ", "of", " ", "law">>, <<"court">>,
               <<"legal", " ", "aid">>, <<"adr">>, <<"judici">>},
       theme |-> "Justice and Rule of Law"],
      [kw |-> {<<"governance">>, <<"open", " ", "government">>,
               <<"accountable", " ", "institution">>},
       theme |-> "Open Government"]>>

\* rx.search(text) for the pattern with alternatives kw, on the lower-cased
\* text (the patterns are compiled with re.I)
RxSearch(kw, low) ==
    \E k \in DOMAIN low : \E n \in k .. Len(low) : SubSeq(low, k, n) \in kw

\* for t in tags: th = TAG_TO_THEME.get(t); if th: return [th]
RECURSIVE FirstMappedTag(_)
FirstMappedTag(tags) ==
    IF tags = <<>> THEN None
    ELSE IF tags[1] \in DOMAIN TAG_TO_THEME THEN TAG_TO_THEME[tags[1]]
    ELSE FirstMappedTag(Tail(tags))

\* for rx, th in KW_TO_THEME: if rx.search(text): return [th]
RECURSIVE FirstKeyword(_, _)
FirstKeyword(low, j) ==
    IF j > Len(KW_TO_THEME) THEN None
    ELSE IF RxSearch(KW_TO_THEME[j].kw, low) THEN KW_TO_THEME[j].theme
    ELSE FirstKeyword(low, j + 1)

\* f"{title} {country_scope}": a missing country_scope prints as "None"
ThemeText(record) ==
    record.title \o <<" ">>
        \o (IF record.country_scope = <<>> THEN <<"None">> ELSE record.country_scope)

_themes_fromKeywordsFirst(record) ==
    LET kw == FirstKeyword(Lower(ThemeText(record)), 1)
        th == FirstMappedTag(record.tags)
    IN IF kw # None THEN <<kw>>
       ELSE IF th # None THEN <<th>>
       ELSE <<"Open Government">>

_themes_from(record) ==
    LET th == FirstMappedTag(record.tags)
        kw == FirstKeyword(Lower(ThemeText(record)), 1)
    IN IF th # None THEN <<th>>
       ELSE IF kw # None THEN <<kw>>
       ELSE <<"Open Government">>

_status_from_datesTodayClosed(deadline_iso) ==
    IF deadline_iso = None THEN None
    ELSE IF ParseDate(deadline_iso) = 0 THEN None
    ELSE IF ParseDate(deadline_iso) > now THEN "open"
    ELSE "closed"

\* open on or before the deadline, by the wall clock (not by today_utc)
_status_from_dates(deadline_iso) ==
    IF deadline_iso = None THEN None
    ELSE IF ParseDate(deadline_iso) = 0 THEN None
    ELSE IF ParseDate(deadline_iso) > now THEN "open"
    ELSE IF ParseDate(deadline_iso) = now THEN "open"
    ELSE "closed"

\* (r.get("donor") or "").strip() or "Unknown"
ResolveDonor(d) == IF Strip(d) = <<>> THEN <<"Unknown">> ELSE Strip(d)

PassesFiltersTodayKept(deadline, fo, rd, td) ==
    /\ ~(rd /\ deadline = None)
    /\ ~(fo /\ deadline # None
            /\ (ParseDate(deadline) = 0 \/ ParseDate(deadline) < td))

\* the record-level filters: require_deadline, future_only
PassesFilters(deadline, fo, rd, td) ==
    /\ ~(rd /\ deadline = None)
    /\ ~(fo /\ deadline # None
            /\ (ParseDate(deadline) = 0 \/ ParseDate(deadline) <= td))

DedupKeyCaseSensitive(donor, title, deadline) == <<donor, title, deadline>>

\* key = (donor.lower(), title.lower(), deadline or "")
DedupKey(donor, title, deadline) == <<Lower(donor), Lower(title), deadline>>

\* nid = r.get("id") or _sha1(donor, url or title, deadline or "")
RecordId(r) ==
    LET title == _clean_title(r.title)
        donor == ResolveDonor(r.donor)
        url == Strip(r.url)
        deadline == _to_iso(r.deadline)
    IN IF r.id # <<>> THEN r.id
       ELSE _sha1(<<donor,
                    IF url # <<>> THEN url ELSE title,
                    IF deadline = None THEN <<>> ELSE <<deadline>>>>)

\* one iteration of the loop of normalize over records[i]; idx records the
\* position of the raw record the canonical record was made of
NormalizeOne(acc, r, i, fo, rd, td) ==
    LET title == _clean_title(r.title)
        donor == ResolveDonor(r.donor)
        url == Strip(r.url)
        deadline == _to_iso(r.deadline)
        published == _to_iso(r.published_date)
        acc1 == IF url # <<>> THEN [acc EXCEPT !.seen_urls = @ \cup {url}] ELSE acc
        key == DedupKey(donor, title, deadline)
    IN IF title = <<>> THEN acc
       ELSE IF url # <<>> /\ url \in acc.seen_urls THEN acc
       ELSE IF ~PassesFilters(deadline, fo, rd, td) THEN acc1
       ELSE IF key \in acc1.seen_keys THEN acc1
       ELSE [acc1 EXCEPT
               !.seen_keys = @ \cup {key},
               !.normalized = Append(@,
                   [id |-> RecordId(r), title |-> title, donor |-> donor,
                    url |-> url, deadline |-> deadline,
                    published_date |-> published,
                    status |-> IF r.status # None THEN r.status
                               ELSE _status_from_dates(deadline),
                    themes |-> _themes_from([title |-> title,
                                             country_scope |-> r.country_scope,
                                             tags |-> r.tags]),
                    idx |-> i])]

RECURSIVE NormalizeLoop(_, _, _, _, _, _)
NormalizeLoop(records, i, acc, fo, rd, td) ==
    IF i > Len(records) THEN acc
    ELSE NormalizeLoop(records, i + 1,
                       NormalizeOne(acc, records[i], i, fo, rd, td), fo, rd, td)

\* sort_key: (deadline or datetime.max, -epoch(published_date or datetime.min))
sort_key(x) ==
    <<IF x.deadline # None /\ ParseDate(x.deadline) # 0
         THEN ParseDate(x.deadline) ELSE MaxDate,
      0 - (IF x.published_date # None /\ ParseDate(x.published_date) # 0
              THEN ParseDate(x.published_date) ELSE MinDate)>>

KeyLess(a, b) == a[1] < b[1] \/ (a[1] = b[1] /\ a[2] < b[2])

RECURSIVE InsertSorted(_, _)
InsertSorted(s, x) ==
    IF s = <<>> THEN <<x>>
    ELSE IF KeyLess(sort_key(x), sort_key(s[1])) THEN <<x>> \o s
    ELSE <<s[1]>> \o InsertSorted(Tail(s), x)

\* list.sort(key=sort_key): stable
RECURSIVE SortStable(_)
SortStable(s) ==
    IF s = <<>> THEN <<>>
    ELSE InsertSorted(SortStable(SubSeq(s, 1, Len(s) - 1)), s[Len(s)])

normalize(records, fo, rd, td) ==
    SortStable(NormalizeLoop(records, 1,
        [seen_urls |-> {}, seen_keys |-> {}, normalized |-> <<>>],
        fo, rd, td).normalized)

(***************************************************************************)
(* The pipeline driver and the seen-ledger (src/aggregator.py)             *)
(***************************************************************************)
\* hashlib.sha1 of "title|url|deadline|donor"; a deadline of None prints as "None"
_sig(item) ==
    item.title \o <<"|">> \o item.url \o <<"|">>
      \o <<IF item.deadline = None THEN "None" ELSE item.deadline>>
      \o <<"|">> \o item.donor

DropAfdNoDeadlineSkipped(ops) == ops

\* the hard rule of main: drop AFD/AfDB items without deadline
DropAfdNoDeadline(ops) ==
    SelectSeq(ops, LAMBDA op : ~(op.donor \in {<<"AFD">>, <<"AfDB">>} /\ op.deadline = None))

IsNewAlways(sig, seenSet) == TRUE

\* sig not in seen
IsNew(sig, seenSet) == sig \notin seenSet

\* the loop of main that collects new_items, each with op["sig"] set
RECURSIVE NewItems(_, _)
NewItems(ops, seenSet) ==
    IF ops = <<>> THEN <<>>
    ELSE LET rest == NewItems(Tail(ops), seenSet)
         IN IF IsNew(_sig(ops[1]), seenSet)
            THEN <<[op |-> ops[1], sig |-> _sig(ops[1])]>> \o rest
            ELSE rest

SigsOf(items) == {items[i].sig : i \in DOMAIN items}
IdsOf(items) == {items[i].op.id : i \in DOMAIN items}

Max(a, b) == IF a > b THEN a ELSE b
Min(a, b) == IF a < b THEN a ELSE b

\* capacity = max(1, MAX_LINES - 1)
Capacity(ml) == Max(1, ml - 1)

RenderSilentlyTruncated(items, ml) ==
    [count |-> Len(items),
     lines |-> SubSeq(items, 1, Min(Len(items), Capacity(ml))),
     more  |-> 0]

\* the digest: the count in the header, the items that get a line, the count
\* in the summary line (0: no summary line)
Render(items, ml) ==
    [count |-> Len(items),
     lines |-> SubSeq(items, 1, Min(Len(items), Capacity(ml))),
     more  |-> IF Len(items) > Capacity(ml) THEN Len(items) - Capacity(ml) ELSE 0]

NoDigest == [count |-> 0, lines |-> <<>>, more |-> 0]

(***************************************************************************)
(* The fetch step of main and _safe_fetch (src/aggregator.py)              *)
(***************************************************************************)
\* the names main registers its connectors under, in the order of sources
SourceNames == <<"UNDP", "AfDB", "World Bank", "AFD">>

\* A connector c is [params, calls]: the parameters its fetch declares, and
\* what its successive calls do: "items" (returns a notice), "empty" (returns
\* []), "placeholder" (returns the one "No ... notices" record of
\* worldbank.fetch and undp.fetch), "TypeError" or "Exception" (raises).  The
\* last outcome repeats.  calls = <<>> is a connector that was not imported
\* (fn is None).
Raises(o) == o \in {"TypeError", "Exception"}

CallOutcome(c, n) == c.calls[IF n < Len(c.calls) THEN n ELSE Len(c.calls)]

\* the list a call returns; the records carry no donor key
Returned(o, name) ==
    CASE o = "items" ->
            <<Raw(<<>>, <<"Grant">>, <<>>, <<name, "/1">>, "2024-07-01", None)>>
      [] o = "placeholder" ->
            <<Raw(<<>>, <<"No", " ", name, " ", "notices">>, <<>>, <<name, "/">>, None, None)>>
      [] OTHER -> <<>>

\* for it in items: it.setdefault("donor", name)
SetDonor(items, name) ==
    [i \in DOMAIN items |->
        IF items[i].donor = <<>> THEN [items[i] EXCEPT !.donor = <<name>>] ELSE items[i]]

\* the no-argument retry after a TypeError is made inside the except clause:
\* what it raises leaves _safe_fetch
_safe_fetch(name, c) ==
    IF c.calls = <<>> THEN [raised |-> FALSE, items |-> <<>>, calls |-> <<>>]
    ELSE
    LET o1 == CallOutcome(c, 1)
        retried == o1 = "TypeError"
        o2 == CallOutcome(c, 2)
        n1 == IF retried THEN 2 ELSE 1
        log1 == IF retried
                   THEN <<[kind |-> "first", out |-> o1], [kind |-> "noargs", out |-> o2]>>
                   ELSE <<[kind |-> "first", out |-> o1]>>
    IN IF retried /\ Raises(o2) THEN [raised |-> TRUE, items |-> <<>>, calls |-> log1]
       ELSE IF ~retried /\ Raises(o1) THEN [raised |-> FALSE, items |-> <<>>, calls |-> log1]
       ELSE
       LET items1 == Returned(IF retried THEN o2 ELSE o1, name)
           w1 == items1 = <<>> /\ "ogp_only" \in c.params
           ow1 == CallOutcome(c, n1 + 1)
           items2 == IF w1 /\ ~Raises(ow1) THEN Returned(ow1, name) ELSE items1
           n2 == IF w1 THEN n1 + 1 ELSE n1
           log2 == IF w1 THEN Append(log1, [kind |-> "widen_ogp", out |-> ow1]) ELSE log1
           w2 == items2 = <<>> /\ "since_days" \in c.params
           ow2 == CallOutcome(c, n2 + 1)
           items3 == IF w2 /\ ~Raises(ow2) THEN Returned(ow2, name) ELSE items2
           log3 == IF w2 THEN Append(log2, [kind |-> "widen_since", out |-> ow2]) ELSE log2
       IN [raised |-> FALSE, items |-> SetDonor(items3, name), calls |-> log3]

\* for name, fn, desired_kwargs in sources: all_raw.extend(_safe_fetch(...))
RECURSIVE FetchLoop(_, _, _)
FetchLoop(srcs, k, acc) ==
    IF k > Len(srcs) THEN acc
    ELSE LET r == _safe_fetch(SourceNames[k], srcs[k])
         IN IF r.raised
               THEN [acc EXCEPT !.invoked = @ \cup {k}, !.raised = TRUE,
                                !.calls = Append(@, r.calls)]
               ELSE FetchLoop(srcs, k + 1,
                              [acc EXCEPT !.invoked = @ \cup {k},
                                          !.calls = Append(@, r.calls),
                                          !.all_raw = @ \o r.items])

(***************************************************************************)
(* The inputs of the model                                                 *)
(***************************************************************************)
RECURSIVE SeqsUpTo(_, _)
SeqsUpTo(S, n) ==
    IF n = 0 THEN {<<>>}
    ELSE LET shorter == SeqsUpTo(S, n - 1)
         IN shorter \cup {Append(q, x) : q \in {t \in shorter : Len(t) = n - 1}, x \in S}

\* the days a run can take place on
RunDays == {2, 3}

MaxLinesChoices == {2, 14}

Grant1 == Raw(<<>>, <<"Grant">>, <<"A">>, <<"u1">>, "2024-07-01", None)
\* the same notice, its title reworded
Grant1Retitled == Raw(<<>>, <<"Grant", " ", "v2">>, <<"A">>, <<"u1">>, "2024-07-01", None)
\* the same opportunity, posted again under another url
Grant2 == Raw(<<>>, <<"Grant">>, <<"A">>, <<"u2">>, "1 July 2024", None)
AfdbOpen == Raw(<<>>, <<"Audit">>, <<"AfDB">>, <<"u3">>, None, None)
AuditMid == Raw(<<>>, <<"Audit">>, <<"A">>, <<"u4">>, "June 15, 2024", None)

SourceRecords == {Grant1, Grant1Retitled, Grant2, AfdbOpen, AuditMid}
SourceBatches == SeqsUpTo(SourceRecords, MaxSource)

\* two sources re-posting one opportunity
EndToEnd == <<Grant1, Grant2>>

NormTitles == {<<"Grant">>, <<" ", "grant", " ", "-">>, <<"nav", ".css">>}
NormDonors == {<<"A">>, <<"a", " ">>}
NormUrls == {<<>>, <<"u1">>, <<" ", "u2">>}
NormDeadlines == {None, "1 May 2024", "2024-07-01"}

NormRecords ==
    {Raw(<<>>, t, d, u, dl, None) :
        t \in NormTitles, d \in NormDonors, u \in NormUrls, dl \in NormDeadlines}
    \cup {Raw(<<"euft_1">>, <<"Grant">>, <<"A">>, <<>>, dl, None) : dl \in NormDeadlines}
    \cup {Raw(<<"euft_2">>, <<"Grant">>, <<"A">>, <<"u1">>, "2024-07-01", None)}
NormBatches == SeqsUpTo(NormRecords, MaxBatch)

DeadlineSpellings == {None, "1 May 2024", "2024-06-01", "2024-07-01", "soon-ish"}
DeadlineRecords ==
    {Raw(<<>>, t, <<"A">>, <<>>, dl, None) :
        t \in {<<"Grant">>, <<"Audit">>}, dl \in DeadlineSpellings}
DeadlineBatches == SeqsUpTo(DeadlineRecords, MaxBatch)

\* records that differ in the two sort keys; "9999-12-31" is the last date
\* dateutil can parse and the day sort_key gives a null deadline
SortDeadlines == {None, "2024-06-15", "2024-07-01", "9999-12-31"}
SortPublished == {None, "2024-05-01", "2024-06-01"}
SortRecords ==
    {Raw(<<>>, <<t>>, <<"A">>, <<>>, d, p) :
        t \in {"Grant", "Audit"}, d \in SortDeadlines, p \in SortPublished}
SortBatches == SeqsUpTo(SortRecords, MaxBatch)

\* records that differ in tags, title words and country scope
ThemeTags == {<<>>, <<"budget">>, <<"other", "justice", "budget">>, <<"Budget">>}
ThemeTitles ==
    {<<"Grant">>, <<"Media", " ", "Audit">>, <<"Audit", " ", "Media">>,
     <<"AI", " ", "governance">>}
ThemeScopes == {<<>>, <<"Women">>}
ThemeRecords ==
    {[Raw(<<>>, t, <<"A">>, <<>>, None, None) EXCEPT !.tags = g, !.country_scope = c] :
        g \in ThemeTags, t \in ThemeTitles, c \in ThemeScopes}
ThemeBatches == SeqsUpTo(ThemeRecords, MaxBatch)

\* records that differ in the connector's status hint and in the deadline
StatusHints == {None, "forthcoming", "closed"}
StatusDeadlines == {None, "2024-05-01", "2024-06-15", "2024-07-01"}
StatusRecords ==
    {[Raw(<<>>, <<t>>, <<"A">>, <<>>, d, None) EXCEPT !.status = h] :
        t \in {"Grant", "Audit"}, d \in StatusDeadlines, h \in StatusHints}
StatusBatches == SeqsUpTo(StatusRecords, MaxBatch)
StatusClocks == {2, 3, 4}

\* connectors: sound, empty, failing, failing then sound, widened, failing
\* then empty, placeholder
ConnectorCalls ==
    {<<"items">>, <<"empty">>, <<"Exception">>, <<"TypeError", "items">>,
     <<"TypeError", "Exception">>, <<"TypeError", "TypeError">>, <<"empty", "items">>,
     <<"empty", "Exception", "items">>, <<"TypeError", "empty">>, <<"placeholder">>, <<>>}
ConnectorParams == {{}, {"ogp_only", "since_days"}}
Connectors == [params : ConnectorParams, calls : ConnectorCalls]
SourceLists == SeqsUpTo(Connectors, MaxConnectors) \ {<<>>}

\* state.json: well-formed, absent, unreadable, not JSON, a JSON document that
\* is not an object ([] or null), an object whose "seen" is null
StateShapes == {"ok", "missing", "unreadable", "not_json", "not_object", "seen_null"}
LoadConnectors == [params : {{}}, calls : {<<"items">>, <<"empty">>, <<"Exception">>}]
LoadSourceLists == SeqsUpTo(LoadConnectors, MaxConnectors) \ {<<>>}

\* ledgers left by earlier runs: one old fingerprint, or two
PreviousLedgers == {SetToBag({<<"old1">>}), SetToBag({<<"old1">>, <<"old2">>})}

TitleSpellings ==
    {<<>>, <<" ", "\t">>, <<" ", "-", " ", "|">>, <<"nav", ".css">>, <<"app", ".js">>,
     <<"x", "site-header", "y">>, <<" ", "Home", " ">>, <<"menu">>,
     <<"-", " ", "Home">>, <<"Grant">>, <<"A", "&amp;", "A">>,
     <<" ", "Grant", " ", "\t", "v2", ":">>}
TitleRecords == {Raw(<<>>, t, <<"A">>, <<>>, None, None) : t \in TitleSpellings}
TitleBatches == SeqsUpTo(TitleRecords, MaxBatch)

(***************************************************************************)
(* The runs of main()                                                      *)
(***************************************************************************)
config == <<future_only, require_deadline, max_lines>>
history == <<sent, delivered, deliveredIds>>

\* (None, None, None)
NoAmount == [min |-> <<>>, max |-> <<>>, currency |-> None]

connectors == <<sources, invoked, calls>>
amount == <<amount_text, amount_out>>

Init ==
    /\ file = EmptyBag
    /\ pc = "idle"
    /\ runs = 0
    /\ all_raw = <<>>
    /\ today = 2
    /\ now = 2
    /\ sources = <<>>
    /\ invoked = {}
    /\ calls = <<>>
    /\ amount_text = <<>>
    /\ amount_out = NoAmount
    /\ procs = <<>>
    /\ loads = 0
    /\ stateShape = "missing"
    /\ normalized = <<>>
    /\ seen = {}
    /\ new_items = <<>>
    /\ digest = NoDigest
    /\ outcome = "none"
    /\ posts = 0
    /\ saves = 0
    /\ pubOk = FALSE
    /\ file0 = EmptyBag
    /\ sameInput = FALSE
    /\ prevOutcome = "none"
    /\ prevNew = <<>>
    /\ sent = {}
    /\ delivered = {}
    /\ deliveredIds = {}
    /\ future_only \in BOOLEAN
    /\ require_deadline \in BOOLEAN
    /\ max_lines \in MaxLinesChoices

\* main is started (by the scheduler); the fetch step up to its early return.
\* What the connectors return, merged and each record with its donor set, is
\* the input src; the day is the UTC date of the run and never goes back.
Fetch ==
    /\ pc \in {"idle", "done"}
    /\ runs < MaxRuns
    /\ \E src \in SourceBatches, d \in RunDays :
        /\ d >= today
        /\ all_raw' = src
        /\ today' = d
        /\ now' = d
        /\ sameInput' = (runs > 0 /\ src = all_raw /\ d = today)
        /\ prevOutcome' = IF runs > 0 /\ src = all_raw /\ d = today THEN outcome ELSE "none"
        /\ prevNew' = IF runs > 0 /\ src = all_raw /\ d = today THEN new_items ELSE <<>>
        /\ IF src = <<>>
              THEN pc' = "done" /\ outcome' = "no_items"
              ELSE pc' = "normalize" /\ outcome' = "none"
    /\ runs' = runs + 1
    /\ UNCHANGED connectors
    /\ loads' = 0
    /\ file0' = file
    /\ normalized' = <<>>
    /\ seen' = {}
    /\ new_items' = <<>>
    /\ digest' = NoDigest
    /\ posts' = 0
    /\ saves' = 0
    /\ pubOk' = FALSE
    /\ UNCHANGED <<file, stateShape, config, amount, procs, history>>

\* normalize_ops, the AFD/AfDB rule and the early return
Normalize ==
    /\ pc = "normalize"
    /\ LET ops == DropAfdNoDeadline(normalize(all_raw, future_only, require_deadline, today))
       IN /\ normalized' = ops
          /\ IF ops = <<>>
                THEN pc' = "done" /\ outcome' = "no_normalized"
                ELSE pc' = "filter" /\ outcome' = "none"
    /\ UNCHANGED <<file, stateShape, runs, all_raw, today, now, connectors, loads, seen, new_items, digest, posts, saves,
                   pubOk, file0, sameInput, prevOutcome, prevNew, config, amount, procs, history>>

\* load_state followed by set(state.get("seen", [])): the seen set, or the
\* exception raised on a document of the wrong shape
LoadRaises(shape) == shape \in {"not_object", "seen_null"}

LoadedSeen(shape, f) == IF shape = "ok" THEN BagToSet(f) ELSE {}

FilterNewNoEarlyReturn ==
    /\ pc = "filter"
    /\ loads' = loads + 1
    /\ IF LoadRaises(stateShape)
          THEN /\ pc' = "done" /\ outcome' = "raised"
               /\ UNCHANGED <<seen, new_items>>
          ELSE /\ seen' = LoadedSeen(stateShape, file)
               /\ new_items' = NewItems(normalized, LoadedSeen(stateShape, file))
               /\ pc' = "publish"
               /\ outcome' = "none"
    /\ UNCHANGED <<file, stateShape, runs, all_raw, today, now, connectors, normalized, digest,
                   posts, saves, pubOk, file0, sameInput, prevOutcome, prevNew, config, amount, procs,
                   history>>

\* load_state, the new items and the early return
FilterNew ==
    /\ pc = "filter"
    /\ loads' = loads + 1
    /\ IF LoadRaises(stateShape)
          THEN /\ pc' = "done" /\ outcome' = "raised"
               /\ UNCHANGED <<seen, new_items>>
          ELSE /\ seen' = LoadedSeen(stateShape, file)
               /\ new_items' = NewItems(normalized, LoadedSeen(stateShape, file))
               /\ IF NewItems(normalized, LoadedSeen(stateShape, file)) = <<>>
                     THEN pc' = "done" /\ outcome' = "no_new"
                     ELSE pc' = "publish" /\ outcome' = "none"
    /\ UNCHANGED <<file, stateShape, runs, all_raw, today, now, connectors, normalized, digest,
                   posts, saves, pubOk, file0, sameInput, prevOutcome, prevNew, config, amount, procs,
                   history>>

\* the digest is rendered and post_to_slack returns
PublishOk ==
    /\ pc = "publish"
    /\ digest' = Render(new_items, max_lines)
    /\ posts' = posts + 1
    /\ pubOk' = TRUE
    /\ sent' = sent \cup SigsOf(new_items)
    /\ pc' = "commit"
    /\ UNCHANGED <<file, stateShape, runs, all_raw, today, now, connectors, loads, normalized, seen, new_items, outcome,
                   saves, file0, sameInput, prevOutcome, prevNew, config, amount, procs,
                   delivered, deliveredIds>>

PublishFailCommits ==
    /\ pc = "publish"
    /\ digest' = Render(new_items, max_lines)
    /\ posts' = posts + 1
    /\ seen' = seen \cup SigsOf(new_items)
    /\ file' = SetToBag(seen \cup SigsOf(new_items))
    /\ saves' = saves + 1
    /\ stateShape' = "ok"
    /\ outcome' = "raised"
    /\ pc' = "done"
    /\ UNCHANGED <<runs, all_raw, today, now, connectors, loads, normalized, new_items, pubOk, file0,
                   sameInput, prevOutcome, prevNew, config, amount, procs, history>>

PublishFailSwallowed ==
    /\ pc = "publish"
    /\ digest' = Render(new_items, max_lines)
    /\ posts' = posts + 1
    /\ outcome' = "posted"
    /\ pc' = "done"
    /\ UNCHANGED <<file, stateShape, runs, all_raw, today, now, connectors, loads, normalized, seen, new_items, saves,
                   pubOk, file0, sameInput, prevOutcome, prevNew, config, amount, procs, history>>

\* the digest is rendered and post_to_slack raises (SLACK_WEBHOOK_URL not set,
\* requests.post raises, raise_for_status raises): main ends by the exception
PublishFail ==
    /\ pc = "publish"
    /\ digest' = Render(new_items, max_lines)
    /\ posts' = posts + 1
    /\ outcome' = "raised"
    /\ pc' = "done"
    /\ UNCHANGED <<file, stateShape, runs, all_raw, today, now, connectors, loads, normalized, seen, new_items, saves,
                   pubOk, file0, sameInput, prevOutcome, prevNew, config, amount, procs, history>>

CommitOnlyNew ==
    /\ pc = "commit"
    /\ seen' = seen \cup SigsOf(new_items)
    /\ file' = SetToBag(SigsOf(new_items))
    /\ saves' = saves + 1
    /\ stateShape' = "ok"
    /\ delivered' = delivered \cup SigsOf(new_items)
    /\ deliveredIds' = deliveredIds \cup IdsOf(new_items)
    /\ outcome' = "posted"
    /\ pc' = "done"
    /\ UNCHANGED <<runs, all_raw, today, now, connectors, loads, normalized, new_items, digest, posts, pubOk,
                   file0, sameInput, prevOutcome, prevNew, config, amount, procs, sent>>

\* seen.update(...); state["seen"] = list(seen); save_state(state)
Commit ==
    /\ pc = "commit"
    /\ seen' = seen \cup SigsOf(new_items)
    /\ file' = SetToBag(seen \cup SigsOf(new_items))
    /\ saves' = saves + 1
    /\ stateShape' = "ok"
    /\ delivered' = delivered \cup SigsOf(new_items)
    /\ deliveredIds' = deliveredIds \cup IdsOf(new_items)
    /\ outcome' = "posted"
    /\ pc' = "done"
    /\ UNCHANGED <<runs, all_raw, today, now, connectors, loads, normalized, new_items, digest, posts, pubOk,
                   file0, sameInput, prevOutcome, prevNew, config, amount, procs, sent>>

Next == Fetch \/ Normalize \/ FilterNew \/ PublishOk \/ PublishFail \/ Commit

Spec == Init /\ [][Next]_vars

(***************************************************************************)
(* One run of main over connectors that may fail                           *)
(***************************************************************************)
\* main about to be started on one of the lists of connectors, state.json
\* being of one of the shapes
FetchInitWith(lists, shapes, files) ==
    /\ file \in files
    /\ pc = "idle"
    /\ runs = 0
    /\ all_raw = <<>>
    /\ today = 2
    /\ now = 2
    /\ sources \in lists
    /\ invoked = {}
    /\ calls = <<>>
    /\ amount_text = <<>>
    /\ amount_out = NoAmount
    /\ procs = <<>>
    /\ loads = 0
    /\ stateShape \in shapes
    /\ file0 \in files
    /\ file0 = file
    /\ normalized = <<>>
    /\ seen = {}
    /\ new_items = <<>>
    /\ digest = NoDigest
    /\ outcome = "none"
    /\ posts = 0
    /\ saves = 0
    /\ pubOk = FALSE
    /\ sameInput = FALSE
    /\ prevOutcome = "none"
    /\ prevNew = <<>>
    /\ sent = {}
    /\ delivered = {}
    /\ deliveredIds = {}
    /\ future_only \in BOOLEAN
    /\ require_deadline \in BOOLEAN
    /\ max_lines = 14

FetchInitOn(lists, shapes) == FetchInitWith(lists, shapes, {EmptyBag})

InitFetch == FetchInitOn(SourceLists, {"missing"})

\* main is started; the fetch loop over sources up to its early return, or to
\* the exception that leaves _safe_fetch and main
FetchSources ==
    /\ pc = "idle"
    /\ LET r == FetchLoop(sources, 1,
                         [all_raw |-> <<>>, invoked |-> {}, calls |-> <<>>, raised |-> FALSE])
       IN /\ all_raw' = r.all_raw
          /\ invoked' = r.invoked
          /\ calls' = r.calls
          /\ IF r.raised THEN pc' = "done" /\ outcome' = "raised"
             ELSE IF r.all_raw = <<>> THEN pc' = "done" /\ outcome' = "no_items"
             ELSE pc' = "normalize" /\ outcome' = "none"
    /\ runs' = runs + 1
    /\ file0' = file
    /\ UNCHANGED <<file, stateShape, today, now, sources, loads, normalized, seen, new_items, digest, posts,
                   saves, pubOk, sameInput, prevOutcome, prevNew, config, amount, procs, history>>

NextFetch == FetchSources \/ Normalize \/ FilterNew \/ PublishOk \/ PublishFail \/ Commit

SpecFetch == InitFetch /\ [][NextFetch]_vars

\* save_state is Path.write_text: the file is opened for writing, which
\* empties it, and the document is written afterwards.  A run that is killed
\* stops for good where it is.
SaveTruncate ==
    /\ pc = "commit"
    /\ seen' = seen \cup SigsOf(new_items)
    /\ file' = EmptyBag
    /\ stateShape' = "not_json"
    /\ pc' = "saving"
    /\ UNCHANGED <<runs, all_raw, today, now, connectors, loads, normalized, new_items,
                   digest, outcome, posts, saves, pubOk, file0, sameInput, prevOutcome,
                   prevNew, config, amount, procs, history>>

SaveWrite ==
    /\ pc = "saving"
    /\ file' = SetToBag(seen)
    /\ stateShape' = "ok"
    /\ saves' = saves + 1
    /\ delivered' = delivered \cup SigsOf(new_items)
    /\ deliveredIds' = deliveredIds \cup IdsOf(new_items)
    /\ outcome' = "posted"
    /\ pc' = "done"
    /\ UNCHANGED <<runs, all_raw, today, now, connectors, loads, normalized, seen, new_items,
                   digest, posts, pubOk, file0, sameInput, prevOutcome, prevNew, config, amount, procs,
                   sent>>

\* the process is killed on entering save_state or inside it
Crash ==
    /\ pc \in {"commit", "saving"}
    /\ pc' = "crashed"
    /\ outcome' = "crashed"
    /\ UNCHANGED <<file, stateShape, runs, all_raw, today, now, connectors, loads, normalized,
                   seen, new_items, digest, posts, saves, pubOk, file0, sameInput,
                   prevOutcome, prevNew, config, amount, procs, history>>

\* one run of main over a ledger of earlier deliveries, save_state in its steps
InitSave == FetchInitWith(LoadSourceLists, {"ok"}, PreviousLedgers)

NextSave ==
    \/ FetchSources \/ Normalize \/ FilterNew \/ PublishOk \/ PublishFail
    \/ SaveTruncate \/ SaveWrite \/ Crash

SpecSave == InitSave /\ [][NextSave]_vars

\* the digest is rendered and requests.post, called without a timeout, never
\* returns: the endpoint accepted the connection and does not answer
PublishBlocks ==
    /\ pc = "publish"
    /\ digest' = Render(new_items, max_lines)
    /\ posts' = posts + 1
    /\ pc' = "blocked"
    /\ UNCHANGED <<file, stateShape, runs, all_raw, today, now, connectors, loads, normalized,
                   seen, new_items, outcome, saves, pubOk, file0, sameInput, prevOutcome,
                   prevNew, config, amount, procs, history>>

\* one run of main, none of whose steps is postponed forever
InitHang == FetchInitOn(LoadSourceLists, {"missing"})

NextHang ==
    \/ FetchSources \/ Normalize \/ FilterNew
    \/ PublishOk \/ PublishFail \/ PublishBlocks \/ Commit

\* Normalize is enabled exactly when pc = "normalize" and leaves that position:
\* its weak fairness is spelled on the position
SpecHang ==
    /\ InitHang
    /\ [][NextHang]_vars
    /\ WF_vars(FetchSources)
    /\ []<>(pc # "normalize")
    /\ WF_vars(FilterNew)
    /\ WF_vars(PublishOk \/ PublishFail \/ PublishBlocks)
    /\ WF_vars(Commit)

\* one run of main over sound or empty connectors, whatever state.json holds
InitLoad == FetchInitOn(LoadSourceLists, StateShapes)

SpecLoad == InitLoad /\ [][NextFetch]_vars

(***************************************************************************)
(* One call of normalize on an arbitrary batch                             *)
(***************************************************************************)
\* a call of normalize about to be made on one of the batches, with today_utc
\* the day 2 and the wall clock at one of the days of clocks
NormInitAt(batches, clocks) ==
    /\ file = EmptyBag
    /\ pc = "call"
    /\ runs = 0
    /\ all_raw \in batches
    /\ today = 2
    /\ now \in clocks
    /\ sources = <<>>
    /\ invoked = {}
    /\ calls = <<>>
    /\ amount_text = <<>>
    /\ amount_out = NoAmount
    /\ procs = <<>>
    /\ loads = 0
    /\ stateShape = "missing"
    /\ normalized = <<>>
    /\ seen = {}
    /\ new_items = <<>>
    /\ digest = NoDigest
    /\ outcome = "none"
    /\ posts = 0
    /\ saves = 0
    /\ pubOk = FALSE
    /\ file0 = EmptyBag
    /\ sameInput = FALSE
    /\ prevOutcome = "none"
    /\ prevNew = <<>>
    /\ sent = {}
    /\ delivered = {}
    /\ deliveredIds = {}
    /\ future_only \in BOOLEAN
    /\ require_deadline \in BOOLEAN
    /\ max_lines = 14

\* the call main makes: no today_utc, so today is the day of the wall clock
NormInitOn(batches) == NormInitAt(batches, {2})

InitNorm == NormInitOn(NormBatches)

\* normalize(all_raw, future_only=..., require_deadline=...) returns
NormalizeCall ==
    /\ pc = "call"
    /\ normalized' = normalize(all_raw, future_only, require_deadline, today)
    /\ pc' = "returned"
    /\ UNCHANGED <<file, stateShape, runs, all_raw, today, now, connectors, loads, seen, new_items, digest, outcome, posts,
                   saves, pubOk, file0, sameInput, prevOutcome, prevNew, config, amount, procs, history>>

NextNorm == NormalizeCall

SpecNorm == InitNorm /\ [][NextNorm]_vars

\* batches that differ in their deadlines: none, past, today, future, not a date
InitDeadline == NormInitOn(DeadlineBatches)

SpecDeadline == InitDeadline /\ [][NextNorm]_vars

\* batches that differ in deadline and published_date
InitSort == NormInitOn(SortBatches)

SpecSort == InitSort /\ [][NextNorm]_vars

\* batches that differ in tags, title words and country scope
InitTheme == NormInitOn(ThemeBatches)

SpecTheme == InitTheme /\ [][NextNorm]_vars

\* batches that differ in status hint and deadline; the wall clock is at the
\* day of today_utc or a day later
InitStatus == NormInitAt(StatusBatches, StatusClocks)

SpecStatus == InitStatus /\ [][NextNorm]_vars

\* batches that differ in their titles: empty, blank, delimiters, scraper leaks, sound
InitTitle == NormInitOn(TitleBatches)

SpecTitle == InitTitle /\ [][NextNorm]_vars

(***************************************************************************)
(* normalizer._norm_amount: amount text as a sequence of tokens            *)
(***************************************************************************)
MaxAmountTokens == 3   \* tokens in one amount text

\* re.search(r"\b(USD|EUR|GBP|MAD|CAD|AUD)\b|[€$£]", text): the tokens the
\* pattern matches, and the code each one is mapped to.
CurrencyTokens == {"USD", "EUR", "GBP", "MAD", "CAD", "AUD", "$"}

CurrencyOf(tok) == IF tok = "$" THEN "USD" ELSE tok

\* re.findall(r"[\d][\d,\.]*", text): the tokens that start with a digit.
NumericTokens == {"1", "3", "1,000", "1.2.3"}

\* float(n.replace(",", "")): <<v>> for a value, <<>> when float() raises.
FloatOf(tok) ==
    CASE tok = "1" -> <<1>>
      [] tok = "3" -> <<3>>
      [] tok = "1,000" -> <<1000>>
      [] OTHER -> <<>>

IsCurrencyToken(tok) == tok \in CurrencyTokens

IsNumericToken(tok) == tok \in NumericTokens

RECURSIVE ParsedVals(_)
ParsedVals(nums) ==
    IF nums = <<>> THEN <<>>
    ELSE FloatOf(Head(nums)) \o ParsedVals(Tail(nums))

_norm_amount(text) ==
    IF text = <<>> THEN NoAmount
    ELSE
        LET curs == SelectSeq(text, IsCurrencyToken)
            currency == IF curs = <<>> THEN None ELSE CurrencyOf(Head(curs))
            nums == SelectSeq(text, IsNumericToken)
            vals == ParsedVals(SubSeq(nums, 1, Min(2, Len(nums))))
        IN  IF nums = <<>> \/ vals = <<>>
            THEN [min |-> <<>>, max |-> <<>>, currency |-> currency]
            ELSE IF Len(vals) = 1
            THEN [min |-> vals, max |-> vals, currency |-> currency]
            ELSE [min |-> <<Min(vals[1], vals[2])>>,
                  max |-> <<Max(vals[1], vals[2])>>,
                  currency |-> currency]

\* Amount texts: currency codes and symbols, numbers, plain words.
AmountTokens == {"USD", "EUR", "$", "TBD", " ", "1", "3", "1,000", "1.2.3"}

AmountTexts == SeqsUpTo(AmountTokens, MaxAmountTokens)

\* A state in which nothing of the pipeline has run; the amount text and
\* the concurrent runs are the inputs.
IdleInit(texts, ps, files) ==
    /\ file \in files
    /\ pc = "call"
    /\ runs = 0
    /\ all_raw = <<>>
    /\ today = 2
    /\ now = 2
    /\ sources = <<>>
    /\ invoked = {}
    /\ calls = <<>>
    /\ amount_text \in texts
    /\ amount_out = NoAmount
    /\ procs \in ps
    /\ loads = 0
    /\ stateShape = "ok"
    /\ normalized = <<>>
    /\ seen = {}
    /\ new_items = <<>>
    /\ digest = NoDigest
    /\ outcome = "none"
    /\ posts = 0
    /\ saves = 0
    /\ pubOk = FALSE
    /\ file0 = file
    /\ sameInput = FALSE
    /\ prevOutcome = "none"
    /\ prevNew = <<>>
    /\ sent = {}
    /\ delivered = {}
    /\ deliveredIds = {}
    /\ future_only = TRUE
    /\ require_deadline = FALSE
    /\ max_lines = 14

InitAmount == IdleInit(AmountTexts, {<<>>}, {EmptyBag})

NormAmountCall ==
    /\ pc = "call"
    /\ procs = <<>>
    /\ amount_out' = _norm_amount(amount_text)
    /\ pc' = "returned"
    /\ UNCHANGED <<file, runs, all_raw, today, now, normalized, seen,
                   new_items, digest, outcome, posts, saves, pubOk, file0,
                   sameInput, prevOutcome, prevNew, history, config,
                   connectors, loads, stateShape, amount_text, procs>>

NextAmount == NormAmountCall

SpecAmount == InitAmount /\ [][NextAmount]_vars

(***************************************************************************)
(* Overlapping runs of main on one ledger file (src/aggregator.py)         *)
(***************************************************************************)
MaxOverlap == 2   \* runs of main that overlap in time

\* the fingerprints a run's normalized list may hold
OverlapSigs == {<<"old1">>, <<"n1">>, <<"n2">>}

\* a run about to load the ledger: ops are the fingerprints of its
\* normalized list, seen and new are its local variables
OverlapRuns ==
    {[pc |-> "load", ops |-> o, seen |-> {}, new |-> {}] :
        o \in (SUBSET OverlapSigs) \ {{}}}

InitOverlap ==
    IdleInit({<<>>}, [1 .. MaxOverlap -> OverlapRuns], PreviousLedgers \cup {EmptyBag})

\* state = load_state(); seen = set(state.get("seen", [])); the loop that
\* collects new_items; "No new items." ends the run
ProcLoad(p) ==
    /\ procs[p].pc = "load"
    /\ LET seenSet == LoadedSeen(stateShape, file)
           new == {sg \in procs[p].ops : IsNew(sg, seenSet)}
       IN procs' = [procs EXCEPT ![p] =
                       [@ EXCEPT !.seen = seenSet, !.new = new,
                                 !.pc = IF new = {} THEN "done" ELSE "publish"]]
    /\ loads' = loads + 1
    /\ UNCHANGED <<file, stateShape, pc, runs, all_raw, today, now, connectors,
                   normalized, seen, new_items, digest, outcome, posts, saves,
                   pubOk, file0, sameInput, prevOutcome, prevNew, config,
                   amount, history>>

\* post_to_slack returned
ProcPublishOk(p) ==
    /\ procs[p].pc = "publish"
    /\ procs' = [procs EXCEPT ![p].pc = "save"]
    /\ posts' = posts + 1
    /\ sent' = sent \cup procs[p].new
    /\ UNCHANGED <<file, stateShape, pc, runs, all_raw, today, now, connectors,
                   loads, normalized, seen, new_items, digest, outcome, saves,
                   pubOk, file0, sameInput, prevOutcome, prevNew, config,
                   amount, delivered, deliveredIds>>

\* post_to_slack raised: the run ends without saving
ProcPublishFail(p) ==
    /\ procs[p].pc = "publish"
    /\ procs' = [procs EXCEPT ![p].pc = "failed"]
    /\ posts' = posts + 1
    /\ UNCHANGED <<file, stateShape, pc, runs, all_raw, today, now, connectors,
                   loads, normalized, seen, new_items, digest, outcome, saves,
                   pubOk, file0, sameInput, prevOutcome, prevNew, config,
                   amount, history>>

\* seen.update(...); state["seen"] = list(seen); save_state(state)
ProcSave(p) ==
    /\ procs[p].pc = "save"
    /\ file' = SetToBag(procs[p].seen \cup procs[p].new)
    /\ stateShape' = "ok"
    /\ saves' = saves + 1
    /\ delivered' = delivered \cup procs[p].new
    /\ procs' = [procs EXCEPT ![p].pc = "done",
                              ![p].seen = procs[p].seen \cup procs[p].new]
    /\ UNCHANGED <<pc, runs, all_raw, today, now, connectors, loads,
                   normalized, seen, new_items, digest, outcome, posts, pubOk,
                   file0, sameInput, prevOutcome, prevNew, config, amount,
                   sent, deliveredIds>>

NextOverlap ==
    \/ \E p \in DOMAIN procs : ProcLoad(p)
    \/ \E p \in DOMAIN procs : ProcPublishOk(p)
    \/ \E p \in DOMAIN procs : ProcPublishFail(p)
    \/ \E p \in DOMAIN procs : ProcSave(p)

SpecOverlap == InitOverlap /\ [][NextOverlap]_vars

(***************************************************************************)
(* Properties of the pipeline runs (Spec)                                  *)
(***************************************************************************)
\* C1: the ledger is written only in a run whose publish call has already
\* returned successfully, and every fingerprint in the persisted ledger is
\* that of an item of a digest that was delivered.
C1_SaveOnlyAfterDelivery ==
    /\ saves > 0 => (pubOk /\ posts = 1)
    /\ file # file0 => (pubOk /\ saves = 1)
    /\ BagToSet(file) \subseteq sent

\* a run wrote the ledger after the run before it had failed to publish
C1_Witness ==
    /\ pc = "done" /\ saves = 1 /\ file # file0
    /\ sameInput /\ prevOutcome = "raised"

\* C2: when the publish call raises, the persisted ledger stays as it was
\* before the run, nothing is saved, and the run ends by the exception, not
\* as a successful outcome.
C2_FailedPublishLeavesLedger ==
    (posts > 0 /\ ~pubOk) =>
        /\ pc = "done"
        /\ outcome = "raised"
        /\ file = file0
        /\ saves = 0

\* a publish failed in a run that had loaded a non-empty ledger
C2_Witness ==
    /\ pc = "done" /\ outcome = "raised" /\ posts = 1
    /\ file0 # EmptyBag /\ file = file0

\* C3: after a run whose publish failed, the next run with the same source
\* data, configuration and day computes the same new items and attempts to
\* publish them; no run calls publish more than once.
C3_RetriedOnNextRun ==
    /\ posts <= 1
    /\ (sameInput /\ prevOutcome = "raised" /\ pc \in {"publish", "commit", "done"})
          => (new_items = prevNew /\ new_items # <<>>)
    /\ (sameInput /\ prevOutcome = "raised" /\ pc = "done") => posts = 1

\* the run after a failed publish has attempted the same two items again
C3_Witness ==
    /\ sameInput /\ prevOutcome = "raised" /\ pc = "done"
    /\ posts = 1 /\ Len(new_items) = 2 /\ new_items = prevNew

\* C4: after a run that published and committed, a later run on the same
\* source data has no new items, ends with "no new items" and does not call
\* publish; no run publishes an item whose fingerprint is in the ledger it
\* loaded or was committed by an earlier run.
C4_NoRenotification ==
    /\ (sameInput /\ prevOutcome = "posted" /\ pc = "done")
          => (outcome = "no_new" /\ posts = 0 /\ new_items = <<>>)
    /\ posts > 0 => SigsOf(new_items) \cap BagToSet(file0) = {}
    /\ pc \in {"publish", "commit"} => SigsOf(new_items) \cap delivered = {}

\* the run after a committed one saw the same data and ended with no new items
C4_Witness ==
    /\ sameInput /\ prevOutcome = "posted" /\ pc = "done"
    /\ outcome = "no_new" /\ posts = 0 /\ file # EmptyBag

\* C5: after publish and save, the persisted ledger is the loaded set united
\* with the fingerprints of all new records of the run (those only counted in
\* the summary line too), each once; two sources re-posting one opportunity
\* on an empty ledger leave exactly one fingerprint and one digest line.
C5_CommitIsUnion ==
    (pc = "done" /\ outcome = "posted") =>
        /\ BagToSet(file) = BagToSet(file0) \cup SigsOf(new_items)
        /\ \A s \in BagToSet(file) : CopiesIn(s, file) = 1
        /\ (all_raw = EndToEnd /\ file0 = EmptyBag) =>
              /\ Cardinality(BagToSet(file)) = 1
              /\ Len(digest.lines) = 1 /\ digest.more = 0

\* a commit on a non-empty ledger of a digest with a summary line
C5_Witness ==
    /\ pc = "done" /\ outcome = "posted"
    /\ file0 # EmptyBag /\ digest.more > 0
    /\ Cardinality(BagToSet(file)) = Cardinality(BagToSet(file0)) + Len(new_items)

\* the two-source scenario has run on an empty ledger
C5_EndToEndReached ==
    pc = "done" /\ outcome = "posted" /\ all_raw = EndToEnd /\ file0 = EmptyBag

\* C6: the ledger is keyed by the record id, so a record whose id is that of
\* a record of a digest already delivered and committed is never published
\* again, whatever its title.
C6_LedgerKeyedById ==
    pc \in {"publish", "commit"} => IdsOf(new_items) \cap deliveredIds = {}

(***************************************************************************)
(* Properties of one call of normalize (SpecNorm)                          *)
(***************************************************************************)
\* the fields the id is documented to be made of
Triple(r) ==
    <<ResolveDonor(r.donor),
      IF Strip(r.url) # <<>> THEN Strip(r.url) ELSE _clean_title(r.title),
      _to_iso(r.deadline)>>

\* raw record i gets as far as the key check of the loop: its title is valid,
\* no earlier record with a valid title has its url, it passes the filters
ReachesKeyCheck(i) ==
    /\ _clean_title(all_raw[i].title) # <<>>
    /\ \/ Strip(all_raw[i].url) = <<>>
       \/ \A j \in 1 .. (i - 1) :
            ~(/\ _clean_title(all_raw[j].title) # <<>>
              /\ Strip(all_raw[j].url) = Strip(all_raw[i].url))
    /\ PassesFilters(_to_iso(all_raw[i].deadline), future_only, require_deadline, today)

RawKey(r) ==
    <<Lower(ResolveDonor(r.donor)), Lower(_clean_title(r.title)), _to_iso(r.deadline)>>

OutKey(o) == <<Lower(o.donor), Lower(o.title), o.deadline>>

\* C7: the output of one normalize call never holds two records with the
\* same id.
C7_UniqueIds ==
    pc = "returned" =>
        \A a, b \in DOMAIN normalized :
            normalized[a].id = normalized[b].id => a = b

\* the same three fields, read off a canonical record
OutTriple(o) == <<o.donor, IF o.url # <<>> THEN o.url ELSE o.title, o.deadline>>

\* C8: the id of a canonical record is a function of (donor, url or else
\* title, deadline) only: every raw record that agrees with it on the three
\* gets the same id, whatever id the connector supplied.
C8_IdFromTripleOnly ==
    pc = "returned" =>
        \A a \in DOMAIN normalized :
            \A r \in NormRecords :
                Triple(r) = OutTriple(normalized[a]) => RecordId(r) = normalized[a].id

\* C9: two raw records with the same donor and the same non-empty url, both
\* with valid titles, at least one passing the filters, give exactly one
\* canonical record.
C9_SameUrlGivesOne ==
    (/\ pc = "returned"
     /\ Len(all_raw) = 2
     /\ ResolveDonor(all_raw[1].donor) = ResolveDonor(all_raw[2].donor)
     /\ Strip(all_raw[1].url) # <<>>
     /\ Strip(all_raw[1].url) = Strip(all_raw[2].url)
     /\ _clean_title(all_raw[1].title) # <<>>
     /\ _clean_title(all_raw[2].title) # <<>>
     /\ \E i \in 1 .. 2 :
            PassesFilters(_to_iso(all_raw[i].deadline), future_only, require_deadline, today))
        => Len(normalized) = 1

\* C10: the output never holds two records with the same (lower-cased donor,
\* lower-cased cleaned title, ISO deadline or empty) key, and of the records
\* of a key that get through the filters to the key check, the first in input
\* order is the one kept.
C10_KeyDedupKeepsFirst ==
    pc = "returned" =>
        /\ \A a, b \in DOMAIN normalized :
              OutKey(normalized[a]) = OutKey(normalized[b]) => a = b
        /\ \A i \in DOMAIN all_raw :
              ReachesKeyCheck(i) =>
                 \E a \in DOMAIN normalized :
                    /\ OutKey(normalized[a]) = RawKey(all_raw[i])
                    /\ ReachesKeyCheck(normalized[a].idx)
                    /\ RawKey(all_raw[normalized[a].idx]) = RawKey(all_raw[i])
                    /\ normalized[a].idx <= i
                    /\ \A j \in 1 .. (normalized[a].idx - 1) :
                          ~(ReachesKeyCheck(j) /\ RawKey(all_raw[j]) = RawKey(all_raw[i]))

\* two records of one key, the first with a url and the second without,
\* written differently: the first is the one kept
C10_Witness ==
    /\ pc = "returned" /\ Len(all_raw) = 2
    /\ ReachesKeyCheck(1) /\ ReachesKeyCheck(2)
    /\ RawKey(all_raw[1]) = RawKey(all_raw[2])
    /\ all_raw[1].title # all_raw[2].title
    /\ Strip(all_raw[1].url) # <<>> /\ Strip(all_raw[2].url) = <<>>
    /\ Len(normalized) = 1 /\ normalized[1].idx = 1

(***************************************************************************)
(* Properties of the record-level filters (SpecDeadline)                   *)
(***************************************************************************)
\* raw record i has a valid title and is no url repeat
ReachesFilters(i) ==
    /\ _clean_title(all_raw[i].title) # <<>>
    /\ \/ Strip(all_raw[i].url) = <<>>
       \/ \A j \in 1 .. (i - 1) :
            ~(/\ _clean_title(all_raw[j].title) # <<>>
              /\ Strip(all_raw[j].url) = Strip(all_raw[i].url))

\* C11: with future_only set, a raw record whose deadline is written but is
\* not a date is dropped from the output, whatever require_deadline is.
C11_UnparseableDropped ==
    (pc = "returned" /\ future_only) =>
        \A i \in DOMAIN all_raw :
            (all_raw[i].deadline # None /\ ParseDate(all_raw[i].deadline) = 0)
                => \A a \in DOMAIN normalized : normalized[a].idx # i

\* C12: with require_deadline every output record has a deadline; with
\* future_only every output deadline is strictly after today; with both off
\* no record is dropped because of its deadline.
C12_FilterInvariants ==
    pc = "returned" =>
        /\ require_deadline =>
              \A a \in DOMAIN normalized : normalized[a].deadline # None
        /\ future_only =>
              \A a \in DOMAIN normalized :
                 normalized[a].deadline # None => ParseDate(normalized[a].deadline) > today
        /\ (~future_only /\ ~require_deadline) =>
              \A i \in DOMAIN all_raw :
                 ReachesFilters(i) =>
                    \E a \in DOMAIN normalized :
                       OutKey(normalized[a]) = RawKey(all_raw[i])

\* both filters on: a record due today is dropped, one due later is kept
C12_Witness ==
    /\ pc = "returned" /\ future_only /\ require_deadline
    /\ Len(all_raw) = 2
    /\ _to_iso(all_raw[1].deadline) = IsoOf(today)
    /\ ParseDate(all_raw[2].deadline) > today
    /\ Len(normalized) = 1 /\ normalized[1].idx = 2

(***************************************************************************)
(* Properties of the title cleaning (SpecTitle)                            *)
(***************************************************************************)
\* the raw title is empty, blank, nothing but delimiters, holds a .css/.js
\* reference or a site-header, or is a bare home/menu/language
IsGarbageTitle(t) ==
    \/ t = <<>>
    \/ \A k \in DOMAIN t : t[k] \in {" ", "\t"}
    \/ \A k \in DOMAIN t : t[k] \in {" ", "\t", "-", "|", ">", ":"}
    \/ \E k \in DOMAIN t : t[k] \in {".css", ".js", "site-header"}
    \/ \E k \in DOMAIN t :
          /\ t[k] \in {"home", "Home", "menu", "language"}
          /\ \A j \in DOMAIN t \ {k} : t[j] \in {" ", "\t"}

\* C13: every output record has a non-empty cleaned title, and a raw record
\* with a garbage title never appears in the output, not even under a
\* placeholder title.  (The junk patterns are matched on the raw title before
\* the delimiters are trimmed: "- Home" is not a junk title and comes out as
\* "Home".)
C13_GarbageRejected ==
    pc = "returned" =>
        /\ \A a \in DOMAIN normalized :
              /\ normalized[a].title # <<>>
              /\ normalized[a].title # <<"Untitled">>
              /\ ~IsGarbageTitle(all_raw[normalized[a].idx].title)
        /\ \A i \in DOMAIN all_raw :
              IsGarbageTitle(all_raw[i].title)
                 => \A a \in DOMAIN normalized : normalized[a].idx # i

\* a scraper leak and a sound title in one batch: only the sound one comes out
C13_Witness ==
    /\ pc = "returned" /\ Len(all_raw) = 2
    /\ all_raw[1].title = <<"nav", ".css">>
    /\ all_raw[2].title = <<" ", "Grant", " ", "\t", "v2", ":">>
    /\ Len(normalized) = 1
    /\ normalized[1].idx = 2
    /\ normalized[1].title = <<"Grant", " ", "v2">>

(***************************************************************************)
(* The order of the output (SpecSort)                                      *)
(***************************************************************************)
EqualDeadline(x, y) == x.deadline = y.deadline
EqualPublished(x, y) == x.published_date = y.published_date

\* C14: the output is ascending by deadline with null deadlines after every
\* dated record; among equal deadlines it is descending by published_date
\* with null published_date last; records equal on both keep input order.
C14_Sorted ==
    pc = "returned" =>
        \A a, b \in DOMAIN normalized :
            a < b =>
                LET x == normalized[a]
                    y == normalized[b]
                IN /\ x.deadline = None => y.deadline = None
                   /\ (x.deadline # None /\ y.deadline # None)
                         => ParseDate(x.deadline) <= ParseDate(y.deadline)
                   /\ EqualDeadline(x, y) =>
                         /\ x.published_date = None => y.published_date = None
                         /\ (x.published_date # None /\ y.published_date # None)
                               => ParseDate(x.published_date) >= ParseDate(y.published_date)
                   /\ (EqualDeadline(x, y) /\ EqualPublished(x, y)) => x.idx < y.idx

\* the same order, for batches in which no deadline is 9999-12-31
C14_SortedBelowMaxDate ==
    (\A i \in DOMAIN all_raw : all_raw[i].deadline # "9999-12-31") => C14_Sorted

(***************************************************************************)
(* Theme classification (SpecTheme)                                        *)
(***************************************************************************)
\* the words the theme is classified on: the cleaned title and the raw scope
ClassifiedText(x) ==
    x.title \o <<" ">>
        \o (IF all_raw[x.idx].country_scope = <<>> THEN <<"None">>
            ELSE all_raw[x.idx].country_scope)

MappedTagPositions(x) ==
    {k \in DOMAIN all_raw[x.idx].tags : all_raw[x.idx].tags[k] \in DOMAIN TAG_TO_THEME}

MatchingPatterns(x) ==
    {j \in DOMAIN KW_TO_THEME : RxSearch(KW_TO_THEME[j].kw, Lower(ClassifiedText(x)))}

\* C15: themes is a one-element list of the taxonomy: the theme of the first
\* mapped tag; else the theme of the first matching keyword pattern in list
\* order; else Open Government.  A mapped tag beats every keyword match.
C15_ThemePriority ==
    pc = "returned" =>
        \A a \in DOMAIN normalized :
            LET x == normalized[a]
                tags == all_raw[x.idx].tags
            IN /\ Len(x.themes) = 1
               /\ x.themes[1] \in CANON_THEMES
               /\ MappedTagPositions(x) # {} =>
                     \E k \in MappedTagPositions(x) :
                        /\ \A k2 \in MappedTagPositions(x) : k <= k2
                        /\ x.themes[1] = TAG_TO_THEME[tags[k]]
               /\ (MappedTagPositions(x) = {} /\ MatchingPatterns(x) # {}) =>
                     \E j \in MatchingPatterns(x) :
                        /\ \A j2 \in MatchingPatterns(x) : j <= j2
                        /\ x.themes[1] = KW_TO_THEME[j].theme
               /\ (MappedTagPositions(x) = {} /\ MatchingPatterns(x) = {}) =>
                     x.themes[1] = "Open Government"

\* a tagged record whose title also matches keywords, next to an untagged one
\* whose title matches two patterns and whose scope matches a third
C15_Witness ==
    /\ pc = "returned" /\ Len(normalized) = 2
    /\ all_raw[normalized[1].idx].tags = <<"other", "justice", "budget">>
    /\ normalized[1].title = <<"Audit", " ", "Media">>
    /\ normalized[1].themes = <<"Justice and Rule of Law">>
    /\ all_raw[normalized[2].idx].tags = <<"Budget">>
    /\ all_raw[normalized[2].idx].country_scope = <<"Women">>
    /\ normalized[2].title = <<"Media", " ", "Audit">>
    /\ normalized[2].themes = <<"Media Freedom">>

(***************************************************************************)
(* The status of an output record (SpecStatus)                             *)
(***************************************************************************)
\* C16: every output record has status "open", "closed" or null, whatever
\* status hint the connector supplied.
C16_StatusOpenClosedNull ==
    pc = "returned" =>
        \A a \in DOMAIN normalized : normalized[a].status \in {"open", "closed", None}

\* C16, amended: a status hint of the connector is passed through unchanged;
\* without a hint the status is null for a null deadline, "open" for a deadline
\* on or after the day of the wall clock and "closed" for an earlier deadline.
C16_StatusHintOrDerived ==
    pc = "returned" =>
        \A a \in DOMAIN normalized :
            LET x == normalized[a]
                hint == all_raw[x.idx].status
            IN /\ hint # None => x.status = hint
               /\ hint = None =>
                     /\ x.deadline = None => x.status = None
                     /\ (x.deadline # None /\ ParseDate(x.deadline) >= now)
                           => x.status = "open"
                     /\ (x.deadline # None /\ ParseDate(x.deadline) < now)
                           => x.status = "closed"

\* a hinted record past its deadline keeps the hint; an unhinted record due on
\* the day of the wall clock is open
C16_Witness ==
    /\ pc = "returned" /\ Len(normalized) = 2
    /\ all_raw[normalized[1].idx].status = "forthcoming"
    /\ normalized[1].deadline = "2024-05-01"
    /\ normalized[1].status = "forthcoming"
    /\ all_raw[normalized[2].idx].status = None
    /\ ParseDate(normalized[2].deadline) = now
    /\ normalized[2].status = "open"

(***************************************************************************)
(* Failing connectors (SpecFetch)                                          *)
(***************************************************************************)
AlwaysRaises(c) == c.calls # <<>> /\ \A n \in DOMAIN c.calls : Raises(c.calls[n])

FromSource(k) == {i \in DOMAIN all_raw : all_raw[i].donor = <<SourceNames[k]>>}

\* C17: whatever a connector raises on any of its calls, the run does not end
\* by an exception in the fetch step; every registered connector is invoked,
\* a connector all of whose calls raise contributes no record, and the
\* records of a sound connector are merged.
C17_ConnectorFailureTolerated ==
    pc # "idle" =>
        /\ ~(outcome = "raised" /\ posts = 0)
        /\ invoked = DOMAIN sources
        /\ \A k \in DOMAIN sources :
              /\ AlwaysRaises(sources[k]) => FromSource(k) = {}
              /\ sources[k].calls = <<"items">> => FromSource(k) # {}

NothingToReport(c) ==
    \A n \in DOMAIN c.calls : c.calls[n] \in {"TypeError", "Exception", "empty", "placeholder"}

\* C18: when every connector fails or has nothing to report, the run ends
\* with the "no items" outcome: publish is never called and the ledger file
\* is neither read nor written.
C18_NothingFetchedNoItems ==
    (\A k \in DOMAIN sources : NothingToReport(sources[k])) =>
        /\ pc \in {"idle", "done"}
        /\ pc = "done" => outcome = "no_items"
        /\ posts = 0
        /\ loads = 0
        /\ saves = 0
        /\ file = file0

(***************************************************************************)
(* The early returns of main (Spec)                                        *)
(***************************************************************************)
NothingTouched == posts = 0 /\ saves = 0 /\ file = file0

\* C19: when normalization and the AFD/AfDB rule leave no record, or every
\* normalized record is already in the ledger, the run returns without an
\* exception, publish is not called and the ledger file is not written.
C19_EarlyExitsTouchNothing ==
    (pc = "done" /\ all_raw # <<>>) =>
        LET ops == DropAfdNoDeadline(normalize(all_raw, future_only, require_deadline, today))
        IN /\ ops = <<>> => (outcome = "no_normalized" /\ NothingTouched)
           /\ (ops # <<>> /\ \A a \in DOMAIN ops : _sig(ops[a]) \in BagToSet(file0))
                 => (outcome = "no_new" /\ NothingTouched)

\* a run that finds both of its records in the ledger of an earlier delivery
C19_Witness ==
    /\ pc = "done"
    /\ outcome = "no_new"
    /\ Len(normalized) = 2
    /\ \A a \in DOMAIN normalized : _sig(normalized[a]) \in BagToSet(file0)
    /\ NothingTouched

(***************************************************************************)
(* Loading the ledger (SpecLoad)                                           *)
(***************************************************************************)
\* C20: whatever state.json holds, loading the ledger does not end the run by
\* an exception; unless the file is well-formed the run goes on with an empty
\* seen set.
C20_LoadNeverAborts ==
    /\ ~(pc = "done" /\ outcome = "raised" /\ loads > 0 /\ posts = 0)
    /\ (pc = "publish" /\ stateShape # "ok") => seen = {}

(***************************************************************************)
(* A crash while the ledger is saved (SpecSave)                            *)
(***************************************************************************)
\* C21: if the process crashes at any point during save_state, state.json
\* afterwards holds the complete previous ledger or the complete new ledger,
\* never a document that loads as an empty ledger.
C21_SaveCrashSafe ==
    pc = "crashed" =>
        /\ stateShape = "ok"
        /\ file = file0 \/ file = SetToBag(BagToSet(file0) \cup SigsOf(new_items))

(***************************************************************************)
(* The digest (Spec)                                                       *)
(***************************************************************************)
\* the digest of this run has been handed to post_to_slack
Published == posts > 0

\* C22: the digest is a header with the number n of new items, one line for
\* each of the first min(n, cap) new items in normalized order, cap being
\* max(1, MAX_LINES - 1), and a summary line stating n - cap iff n > cap; the
\* item lines and the summary count account for all n items, and the digest
\* is sent in one publish call.
C22_DigestLayout ==
    Published =>
        LET n == Len(new_items)
            cap == IF max_lines - 1 >= 1 THEN max_lines - 1 ELSE 1
            shown == IF n <= cap THEN n ELSE cap
        IN /\ digest.count = n
           /\ Len(digest.lines) = shown
           /\ \A i \in 1 .. shown : digest.lines[i] = new_items[i]
           /\ \A i, j \in 1 .. n :
                 i < j => \E a, b \in DOMAIN normalized :
                             /\ a < b
                             /\ new_items[i].op = normalized[a]
                             /\ new_items[j].op = normalized[b]
           /\ (digest.more > 0) <=> (n > cap)
           /\ n > cap => digest.more = n - cap
           /\ Len(digest.lines) + digest.more = n
           /\ posts = 1

\* two new items under MAX_LINES = 2: one item line and "1 more"
C22_Witness ==
    /\ Published
    /\ max_lines = 2
    /\ Len(new_items) = 2
    /\ Len(digest.lines) = 1
    /\ digest.more = 1

(***************************************************************************)
(* Termination (SpecHang)                                                  *)
(***************************************************************************)
\* C23: every run terminates: no step blocks indefinitely, even when the
\* delivery endpoint (or a source) accepts the connection and never responds.
C23_EveryRunTerminates == <>(pc = "done")


(***************************************************************************)
(* Properties of amount parsing (SpecAmount)                               *)
(***************************************************************************)
\* C24: amount parsing returns all three of min, max and currency null when
\* the text is empty or holds no numeric token; with exactly one numeric
\* token min equals max; whenever min and max are both non-null,
\* min <= max.
C24_AmountShape ==
    pc = "returned" =>
        LET nums == SelectSeq(amount_text, IsNumericToken)
        IN  /\ nums = <<>> => amount_out = NoAmount
            /\ Len(nums) = 1 => amount_out.min = amount_out.max
            /\ (amount_out.min # <<>> /\ amount_out.max # <<>>) =>
                   amount_out.min[1] <= amount_out.max[1]


(***************************************************************************)
(* Properties of url dedup against the filters (SpecNorm)                  *)
(***************************************************************************)
\* raw record i has a valid title and passes the record-level filters
SurvivesFilters(i) ==
    /\ _clean_title(all_raw[i].title) # <<>>
    /\ PassesFilters(_to_iso(all_raw[i].deadline), future_only,
                     require_deadline, today)

\* C25: url dedup keeps the first surviving occurrence: the first raw record
\* of a non-empty url that has a valid title and passes the record-level
\* filters (and repeats no earlier record's dedup key) is in the output; a
\* record dropped by a filter does not suppress a later record of its url.
C25_UrlDedupKeepsFirstSurviving ==
    pc = "returned" =>
        \A i \in DOMAIN all_raw :
            (/\ Strip(all_raw[i].url) # <<>>
             /\ SurvivesFilters(i)
             /\ \A j \in 1 .. (i - 1) :
                   /\ ~(/\ SurvivesFilters(j)
                        /\ Strip(all_raw[j].url) = Strip(all_raw[i].url))
                   /\ RawKey(all_raw[j]) # RawKey(all_raw[i]))
                => \E a \in DOMAIN normalized : normalized[a].idx = i


(***************************************************************************)
(* Properties of the derived status against the options (SpecStatus)       *)
(***************************************************************************)
\* C26: without a status hint the derived status is judged against the
\* today passed in the options: open iff the deadline is on or after that
\* today, closed iff it is strictly before it, null without a deadline; so
\* the statuses do not depend on the wall clock at which the call runs.
C26_StatusJudgedAgainstToday ==
    pc = "returned" =>
        \A a \in DOMAIN normalized :
            LET x == normalized[a]
            IN  all_raw[x.idx].status = None =>
                   /\ x.deadline = None => x.status = None
                   /\ (x.deadline # None /\ ParseDate(x.deadline) >= today)
                         => x.status = "open"
                   /\ (x.deadline # None /\ ParseDate(x.deadline) < today)
                         => x.status = "closed"


(***************************************************************************)
(* Properties of the digest length (Spec)                                  *)
(***************************************************************************)
\* the lines of the digest: the header, the item lines, the summary line
DigestLineCount ==
    1 + Len(digest.lines) + (IF digest.more > 0 THEN 1 ELSE 0)

\* C27: the header, the item lines and the summary line of a published
\* digest are together never more than MAX_LINES lines.
C27_DigestWithinMaxLines ==
    Published => DigestLineCount <= max_lines


(***************************************************************************)
(* Properties of the widening protocol (SpecFetch)                         *)
(***************************************************************************)
\* call n of the log returned a non-empty list
GaveItems(log, n) == log[n].out \in {"items", "placeholder"}

\* C28: a connector is invoked again only while it has returned nothing so
\* far in this run; the retry with ogp_only=False and the retry without
\* since_days are made only for a connector that accepts the parameter; a
\* connector whose first call raised an exception other than TypeError is
\* not retried; an exception in a widening retry leaves the run going; a
\* connector is invoked at most three times per run; every returned record
\* has a donor.
C28_WideningProtocol ==
    pc # "idle" =>
        /\ \A k \in DOMAIN calls :
              LET log == calls[k]
              IN  /\ Len(log) <= 3
                  /\ \A n \in 2 .. Len(log) :
                        \A m \in 1 .. (n - 1) : ~GaveItems(log, m)
                  /\ \A n \in DOMAIN log :
                        /\ log[n].kind = "widen_ogp" => "ogp_only" \in sources[k].params
                        /\ log[n].kind = "widen_since" => "since_days" \in sources[k].params
                        /\ (log[n].kind \in {"widen_ogp", "widen_since"}
                              /\ Raises(log[n].out) /\ n = Len(log))
                              => k \in invoked /\ (k = Len(calls) => outcome # "raised")
                  /\ (log # <<>> /\ log[1].out = "Exception") => Len(log) = 1
        /\ \A i \in DOMAIN all_raw : all_raw[i].donor # <<>>


(***************************************************************************)
(* Properties of overlapping runs (SpecOverlap)                            *)
(***************************************************************************)
\* C29: when the runs that overlap on one ledger file have all finished
\* successfully, the persisted ledger holds the fingerprint of every item
\* that any of them published: no run's commit is lost.
C29_NoCommitLost ==
    (\A p \in DOMAIN procs : procs[p].pc = "done") =>
        \A sg \in sent : BagIn(sg, file)


(***************************************************************************)
(* Properties of the AFD/AfDB rule (Spec)                                  *)
(***************************************************************************)
\* the canonical record of raw record r has donor "AFD" or "AfDB" exactly
\* and a null deadline
AfdNoDeadline(r) ==
    /\ ResolveDonor(r.donor) \in {<<"AFD">>, <<"AfDB">>}
    /\ _to_iso(r.deadline) = None

\* the fingerprint the canonical record of raw record r would have
RawSig(r) ==
    _sig([title |-> _clean_title(r.title), url |-> Strip(r.url),
          deadline |-> _to_iso(r.deadline), donor |-> ResolveDonor(r.donor)])

\* C30: no line of a published digest and no ledger entry comes from a
\* record whose canonical donor is exactly "AFD" or "AfDB" and whose
\* deadline is null, whatever require_deadline is; a run all of whose
\* records are of that kind ends with the "no items" outcome.
C30_AfdNoDeadlineNeverPublished ==
    /\ \A r \in SourceRecords :
          AfdNoDeadline(r) =>
             /\ ~BagIn(RawSig(r), file)
             /\ RawSig(r) \notin sent
             /\ RawSig(r) \notin seen
    /\ \A i \in DOMAIN new_items :
          ~(new_items[i].op.donor \in {<<"AFD">>, <<"AfDB">>}
              /\ new_items[i].op.deadline = None)
    /\ \A i \in DOMAIN digest.lines :
          ~(digest.lines[i].op.donor \in {<<"AFD">>, <<"AfDB">>}
              /\ digest.lines[i].op.deadline = None)
    /\ (/\ pc \notin {"idle", "normalize"}
        /\ all_raw # <<>>
        /\ \A i \in DOMAIN all_raw : AfdNoDeadline(all_raw[i]))
          => /\ pc = "done"
             /\ outcome = "no_normalized"
             /\ normalized = <<>>
             /\ posts = 0

\* a run without require_deadline that fetched an AfDB notice without
\* deadline next to a dated grant: only the grant is published and committed
C30_Witness ==
    /\ pc = "done" /\ outcome = "posted"
    /\ ~require_deadline
    /\ \E i \in DOMAIN all_raw : all_raw[i] = AfdbOpen
    /\ Len(digest.lines) = 1
    /\ digest.lines[1].op.donor = <<"A">>
    /\ ~BagIn(RawSig(AfdbOpen), file)
    /\ BagIn(digest.lines[1].sig, file)

====
